---- MODULE Spec2Model ----
(***************************************************************************)
(* SynoSurveillanceStation (synology_dsm/api/surveillance_station):        *)
(* the camera registry self._data, the update() cycle that refreshes it    *)
(* through three kinds of requests, the accessors that read it and the     *)
(* remote-state operations that only send one request.                     *)
(*                                                                         *)
(* update() is a coroutine: every `await self._dsm.get(...)` is a          *)
(* suspension point, so one update() is a sequence of atomic steps, one    *)
(* per stretch of code between two awaits.                                 *)
(***************************************************************************)
EXTENDS Integers, Sequences, FiniteSets, TLC

(* ------------------------------ bounds -------------------------------- *)

\* Camera IDs the backend may name.
MaxCam == 2
\* Longest `cameras` array of a List response, longest GetLiveViewPath array.
MaxList == 2

CamIds == 1..MaxCam
\* The callers that may run update(): one in the sequential specifications,
\* both in the interleaved one.
Procs == {1, 2}
\* Dict objects alive at once: self._data and one per suspended loop iterator.
DictIds == 1..(Cardinality(Procs) + 1)

(* ------------------------- Python values ------------------------------ *)

\* A Python str is a sequence of one-character strings.
Digit == <<"0", "1", "2", "3", "4", "5", "6", "7", "8", "9">>

\* str(k) for an int k >= 0
RECURSIVE Str(_)
Str(k) ==
    IF k < 10 THEN <<Digit[k + 1]>>
    ELSE Str(k \div 10) \o <<Digit[(k % 10) + 1]>>

\* sep.join(parts)
RECURSIVE Join(_, _)
Join(sep, parts) ==
    IF parts = <<>> THEN <<>>
    ELSE IF Len(parts) = 1 THEN parts[1]
    ELSE parts[1] \o sep \o Join(sep, Tail(parts))

\* s.split(sep) for a one-character sep
RECURSIVE Split(_, _)
Split(s, sep) ==
    IF \A i \in 1..Len(s) : s[i] # sep THEN <<s>>
    ELSE LET i == CHOOSE i \in 1..Len(s) : s[i] = sep /\ \A j \in 1..(i - 1) : s[j] # sep
         IN <<SubSeq(s, 1, i - 1)>> \o Split(SubSeq(s, i + 1, Len(s)), sep)

\* int(s) for a str of decimal digits
RECURSIVE ParseInt(_)
ParseInt(s) ==
    LET value(c) == CHOOSE v \in 0..9 : Digit[v + 1] = c
    IN IF Len(s) = 1 THEN value(s[1])
       ELSE 10 * ParseInt(SubSeq(s, 1, Len(s) - 1)) + value(s[Len(s)])

\* A request parameter: an int or a str.
PyInt(n) == [t |-> "int", n |-> n, s |-> <<>>]
PyStr(s) == [t |-> "str", n |-> 0, s |-> s]
PyNone == [t |-> "None", n |-> 0, s |-> <<>>]
\* A constant of const.py, by name.
PyConst(name) == [t |-> "const", n |-> 0, s |-> <<name>>]

\* str(b) for a bool b
StrBool(b) == IF b THEN <<"T", "r", "u", "e">> ELSE <<"F", "a", "l", "s", "e">>

\* s.lower()
Lower(s) ==
    [i \in 1..Len(s) |-> IF s[i] = "T" THEN "t" ELSE IF s[i] = "F" THEN "f" ELSE s[i]]

(* ------------------- the data holders (camera.py) --------------------- *)

\* SynoCamera(camera_data): list fields kept, no motion flag, empty live view.
SynoCamera(camera_data) ==
    [data |-> camera_data, motion |-> "None", live |-> "None"]

\* SynoCamera.update(camera_data): the new fields are merged into the entry.
CameraUpdate(camera, camera_data) ==
    [camera EXCEPT !.data =
        [f \in (DOMAIN camera.data) \cup (DOMAIN camera_data) |->
            IF f \in DOMAIN camera_data THEN camera_data[f] ELSE camera.data[f]]]

\* SynoCamera.update_motion_detection(data): the cached boolean.
UpdateMotionDetection(camera, motion_data) ==
    [camera EXCEPT !.motion = IF motion_data = "DISABLED" THEN "False" ELSE "True"]

\* SynoCameraLiveView.update(live_view_data)
LiveViewUpdate(camera, live_view_data) ==
    [camera EXCEPT !.live = live_view_data.path]

(* --------------------------- Python dict ------------------------------ *)

\* A dict keeps its keys in insertion order.
EmptyDict == [keys |-> <<>>, val |-> [k \in {} |-> k]]

KeySet(d) == {d.keys[i] : i \in 1..Len(d.keys)}

Has(d, k) == k \in KeySet(d)

\* d[k] = v: a new key goes last, an existing key keeps its place.
DictSet(d, k, v) ==
    IF Has(d, k) THEN [d EXCEPT !.val = [x \in DOMAIN d.val |-> IF x = k THEN v ELSE d.val[x]]]
    ELSE [keys |-> Append(d.keys, k), val |-> (k :> v) @@ d.val]

(* ---------------------------- requests -------------------------------- *)

LIST_MAX_VERSION == 7

Request(api, method, params, max_version) ==
    [api |-> api, method |-> method, params |-> params, max_version |-> max_version]

Param(name, value) == [name |-> name, value |-> value]

ListReq == Request("SYNO.SurveillanceStation.Camera", "List", <<>>, LIST_MAX_VERSION)

MotionEnumReq(camera_id) ==
    Request("SYNO.SurveillanceStation.Camera.Event", "MotionEnum",
            <<Param("camId", PyInt(camera_id))>>, 0)

\* Mutant of line 45: the IDs are joined in ascending order.
LiveViewReqSorted(d) ==
    LET ids == KeySet(d)
        nth(i) == CHOOSE id \in ids : Cardinality({x \in ids : x < id}) = i - 1
    IN Request("SYNO.SurveillanceStation.Camera", "GetLiveViewPath",
               <<Param("idList",
                       PyStr(Join(<<",">>, [i \in 1..Cardinality(ids) |-> Str(nth(i))])))>>, 0)

\* {"idList": ",".join(str(k) for k in self._data)}
LiveViewReq(d) ==
    Request("SYNO.SurveillanceStation.Camera", "GetLiveViewPath",
            <<Param("idList",
                    PyStr(Join(<<",">>, [i \in 1..Len(d.keys) |-> Str(d.keys[i])])))>>, 0)

(* ------------------------- response values ---------------------------- *)

\* One record of the List response's `cameras` array.
CameraDatas ==
    UNION {{[id |-> i, name |-> "a", model |-> "x"], [id |-> i, name |-> "b"]} : i \in CamIds}

SeqsUpTo(S, n) == UNION {[1..k -> S] : k \in 0..n}

ListResponses == SeqsUpTo(CameraDatas, MaxList)

MotionDatas == {"DISABLED", "BY_SURVEILLANCE"}

LivePaths == {"u"}

LiveViewDatas == {[id |-> i, path |-> u] : i \in CamIds, u \in LivePaths}

LiveViewResponses == SeqsUpTo(LiveViewDatas, MaxList)

(* ------------------------------ state --------------------------------- *)

VARIABLES
    heap,      \* the dict objects: DictIds -> dict
    data,      \* self._data: the dict the registry attribute is bound to
    pc,        \* per caller: where its update() is suspended
    iter,      \* per caller: the iterator of the loop at line 33
    reqs,      \* per caller: the requests its current (or last) update() issued
    got,       \* per caller: the List and GetLiveViewPath responses of that update()
    result,    \* per caller: how its last update() ended
    before,    \* per caller: the registry's keys when that update() was called
    merged,    \* per caller: the IDs for which line 29 (merge) ran in that update()
    mixed,     \* per caller: another update() ran during that update()
    call,      \* the accessor or remote-state call made in the last step, if any
    backend,   \* the data the NAS serves, where a specification holds it fixed
    snap       \* the caller's copy of the registry contents, where it takes one

vars == <<heap, data, pc, iter, reqs, got, result, before, merged, mixed, call, backend, snap>>

NoIter == [dict |-> 0, pos |-> 0, used |-> 0]
NoGot == [n |-> 0, list |-> <<>>, live |-> <<>>]
NoCall == [op |-> "none", args |-> <<>>, raised |-> "none", value |-> <<>>, reqs |-> <<>>]
NoSnap == [taken |-> FALSE, age |-> 0, keys |-> <<>>, val |-> <<>>]
NoBackend == [list |-> <<>>, motion |-> <<>>, live |-> <<>>]

\* self._data
Registry == heap[data]

\* Objects nobody refers to are freed.
Collect(h, refs) == [i \in DictIds |-> IF i \in refs THEN h[i] ELSE EmptyDict]

IterRefs(it) == {it[q].dict : q \in Procs} \ {0}

\* before the first update(): SynoBaseApi.__init__ binds self._data = {}
Init ==
    /\ heap = [i \in DictIds |-> EmptyDict]
    /\ data = 1
    /\ pc = [p \in Procs |-> "idle"]
    /\ iter = [p \in Procs |-> NoIter]
    /\ reqs = [p \in Procs |-> <<>>]
    /\ got = [p \in Procs |-> NoGot]
    /\ result = [p \in Procs |-> "none"]
    /\ before = [p \in Procs |-> {}]
    /\ merged = [p \in Procs |-> {}]
    /\ mixed = [p \in Procs |-> FALSE]
    /\ call = NoCall
    /\ snap = NoSnap
    /\ backend = NoBackend

(* ----------------------------- update() ------------------------------- *)

\* Mutant of line 24: the reset is missing, the old dict stays bound.
KeepRegistry(old) == old

\* Mutant of line 24: the dict is cleared entry by entry, all but the last.
ResetKeepsLast(old) ==
    IF old.keys = <<>> THEN old
    ELSE LET k == old.keys[Len(old.keys)]
         IN [keys |-> <<k>>, val |-> (k :> old.val[k])]

\* line 24: self._data = {}
ResetRegistry(old) == EmptyDict

\* line 28: if camera_data["id"] in self._data
MergeBranch(d, camera_data) == Has(d, camera_data.id)

\* Mutant of lines 28-31: every record builds a new entry.
StoreCameraAlwaysNew(d, camera_data) ==
    DictSet(d, camera_data.id, SynoCamera(camera_data))

\* lines 28-31: one camera record of the List response
StoreCamera(d, camera_data) ==
    IF MergeBranch(d, camera_data)
    THEN DictSet(d, camera_data.id, CameraUpdate(d.val[camera_data.id], camera_data))
    ELSE DictSet(d, camera_data.id, SynoCamera(camera_data))

\* lines 27-31
RECURSIVE StoreCameras(_, _)
StoreCameras(d, cameras) ==
    IF cameras = <<>> THEN d
    ELSE StoreCameras(StoreCamera(d, Head(cameras)), Tail(cameras))

\* The IDs for which the branch of line 29 ran while lines 27-31 stored `cameras`.
RECURSIVE MergeBranchIds(_, _)
MergeBranchIds(d, cameras) ==
    IF cameras = <<>> THEN {}
    ELSE (IF MergeBranch(d, Head(cameras)) THEN {Head(cameras).id} ELSE {})
         \cup MergeBranchIds(StoreCamera(d, Head(cameras)), Tail(cameras))

\* Mutant of line 39: the early return is missing.
NeverEmpty(d) == FALSE

\* Mutant of line 39: the test is inverted.
EmptyCheckInverted(d) == d.keys # <<>>

\* line 39: if not self._data
RegistryIsEmpty(d) == d.keys = <<>>

\* lines 33-46, from the point where the loop asks its iterator for the next
\* item: the iterator raises if the dict changed size, else yields the next key
\* (one MotionEnum request, then suspended), else the loop is over and either
\* update() returns (line 40) or the GetLiveViewPath request goes out.
Advance(h, it) ==
    LET d == h[it.dict] IN
    IF it.used # Len(d.keys)
    THEN [pc |-> "idle", result |-> "RuntimeError", iter |-> NoIter, req |-> <<>>]
    ELSE IF it.pos < Len(d.keys)
    THEN [pc |-> "motion", result |-> "none", iter |-> [it EXCEPT !.pos = it.pos + 1],
          req |-> <<MotionEnumReq(d.keys[it.pos + 1])>>]
    ELSE IF RegistryIsEmpty(h[data])
    THEN [pc |-> "idle", result |-> "early", iter |-> NoIter, req |-> <<>>]
    ELSE [pc |-> "live", result |-> "none", iter |-> NoIter, req |-> <<LiveViewReq(h[data])>>]

\* Mutant of lines 47-48: only the first record is applied.
ApplyFirstLiveView(d, live_view_datas) ==
    IF live_view_datas = <<>> THEN [dict |-> d, raised |-> "ok"]
    ELSE IF ~Has(d, Head(live_view_datas).id) THEN [dict |-> d, raised |-> "KeyError"]
    ELSE [dict |-> DictSet(d, Head(live_view_datas).id,
                           LiveViewUpdate(d.val[Head(live_view_datas).id],
                                          Head(live_view_datas))),
          raised |-> "ok"]

\* lines 47-48: the records are applied in order; an unknown ID raises KeyError
\* and leaves the earlier records applied.
RECURSIVE ApplyLiveViews(_, _)
ApplyLiveViews(d, live_view_datas) ==
    IF live_view_datas = <<>> THEN [dict |-> d, raised |-> "ok"]
    ELSE IF ~Has(d, Head(live_view_datas).id) THEN [dict |-> d, raised |-> "KeyError"]
    ELSE ApplyLiveViews(
            DictSet(d, Head(live_view_datas).id,
                    LiveViewUpdate(d.val[Head(live_view_datas).id], Head(live_view_datas))),
            Tail(live_view_datas))

\* What a step of caller p leaves behind: its position, iterator and outcome,
\* the request it issued, and the heap without the objects it let go.
Step(p, h, next) ==
    /\ pc' = [pc EXCEPT ![p] = next.pc]
    /\ iter' = [iter EXCEPT ![p] = next.iter]
    /\ result' = [result EXCEPT ![p] = next.result]
    /\ reqs' = [reqs EXCEPT ![p] = reqs[p] \o next.req]
    /\ heap' = Collect(h, {data} \cup IterRefs([iter EXCEPT ![p] = next.iter]))
    /\ call' = NoCall
    /\ UNCHANGED <<data, before, mixed, backend, snap>>

Raise(p, error) ==
    Step(p, heap, [pc |-> "idle", result |-> error, iter |-> NoIter, req |-> <<>>])

\* lines 24-25: update() is called; the registry is rebound to a new empty dict
\* and the List request goes out.
UpdateStart(p) ==
    /\ pc[p] = "idle"
    /\ LET id == CHOOSE i \in DictIds \ IterRefs(iter) :
                    \A j \in DictIds \ IterRefs(iter) : i <= j
       IN /\ data' = id
          /\ heap' = Collect([heap EXCEPT ![id] = ResetRegistry(Registry)],
                             {id} \cup IterRefs(iter))
    /\ pc' = [pc EXCEPT ![p] = "list"]
    /\ reqs' = [reqs EXCEPT ![p] = <<ListReq>>]
    /\ got' = [got EXCEPT ![p] = NoGot]
    /\ result' = [result EXCEPT ![p] = "none"]
    /\ before' = [before EXCEPT ![p] = KeySet(Registry)]
    /\ merged' = [merged EXCEPT ![p] = {}]
    /\ mixed' = [q \in Procs |->
                    IF q = p THEN \E r \in Procs \ {p} : pc[r] # "idle"
                    ELSE mixed[q] \/ pc[q] # "idle"]
    /\ call' = NoCall
    /\ snap' = [snap EXCEPT !.age = IF snap.taken /\ snap.age < 2 THEN snap.age + 1 ELSE snap.age]
    /\ UNCHANGED <<iter, backend>>

\* Mutant of line 25: a failed List call is tried once more.
ListFailRetry(p) ==
    /\ pc[p] = "list"
    /\ IF Len(reqs[p]) < 2
       THEN Step(p, heap, [pc |-> "list", result |-> "none", iter |-> NoIter,
                           req |-> <<ListReq>>])
       ELSE Raise(p, "TransportError")
    /\ UNCHANGED <<got, merged>>

\* line 25 raises: the transport failed.
ListFail(p) ==
    /\ pc[p] = "list"
    /\ Raise(p, "TransportError")
    /\ UNCHANGED <<got, merged>>

\* lines 26-36: the List response arrives; its cameras are stored, the loop of
\* line 33 starts and runs to its first await (or to the end of update()).
ListResponse(p, cameras) ==
    /\ pc[p] = "list"
    /\ LET h == [heap EXCEPT ![data] = StoreCameras(Registry, cameras)]
           it == [dict |-> data, pos |-> 0, used |-> Len(h[data].keys)]
       IN Step(p, h, Advance(h, it))
    /\ got' = [got EXCEPT ![p].n = 1, ![p].list = cameras]
    /\ merged' = [merged EXCEPT ![p] = MergeBranchIds(Registry, cameras)]

\* line 34 raises.
MotionFail(p) ==
    /\ pc[p] = "motion"
    /\ Raise(p, "TransportError")
    /\ UNCHANGED <<got, merged>>

\* lines 37-46: a MotionEnum response arrives and is applied to the camera the
\* iterator yielded; then the loop goes on.
MotionResponse(p, motion_data) ==
    /\ pc[p] = "motion"
    /\ LET it == iter[p]
           d == heap[it.dict]
           camera_id == d.keys[it.pos]
           h == [heap EXCEPT ![it.dict] =
                    DictSet(d, camera_id, UpdateMotionDetection(d.val[camera_id], motion_data))]
       IN Step(p, h, Advance(h, it))
    /\ got' = [got EXCEPT ![p].n = got[p].n + 1]
    /\ UNCHANGED merged

\* line 42 raises.
LiveViewFail(p) ==
    /\ pc[p] = "live"
    /\ Raise(p, "TransportError")
    /\ UNCHANGED <<got, merged>>

\* lines 47-48: the GetLiveViewPath response arrives and is applied.
LiveViewResponse(p, live_view_datas) ==
    /\ pc[p] = "live"
    /\ LET applied == ApplyLiveViews(Registry, live_view_datas)
       IN Step(p, [heap EXCEPT ![data] = applied.dict],
               [pc |-> "idle", result |-> applied.raised, iter |-> NoIter, req |-> <<>>])
    /\ got' = [got EXCEPT ![p].n = got[p].n + 1, ![p].live = live_view_datas]
    /\ UNCHANGED merged

(* ----------------------------- accessors ------------------------------ *)

Frame == UNCHANGED <<heap, data, pc, iter, reqs, got, result, before, merged, mixed, backend, snap>>

Returned(op, args, value) ==
    [op |-> op, args |-> args, raised |-> "none", value |-> <<value>>, reqs |-> <<>>]

Raised(op, args, error) ==
    [op |-> op, args |-> args, raised |-> error, value |-> <<>>, reqs |-> <<>>]

\* lines 56-58: the cached cameras, in the insertion order of the dict
get_all_cameras ==
    /\ call' = Returned("get_all_cameras", <<>>,
                        [i \in 1..Len(Registry.keys) |-> Registry.val[Registry.keys[i]]])
    /\ Frame

\* Mutant of line 62: self._data.get(camera_id)
get_camera_or_none(camera_id) ==
    /\ call' = IF Has(Registry, camera_id)
               THEN Returned("get_camera", <<PyInt(camera_id)>>, Registry.val[camera_id])
               ELSE Returned("get_camera", <<PyInt(camera_id)>>, "None")
    /\ Frame

\* lines 60-62: self._data[camera_id]
get_camera(camera_id) ==
    /\ call' = IF Has(Registry, camera_id)
               THEN Returned("get_camera", <<PyInt(camera_id)>>, Registry.val[camera_id])
               ELSE Raised("get_camera", <<PyInt(camera_id)>>, "KeyError")
    /\ Frame

\* lines 64-73: the live-view entity, or its attribute named video_format
get_camera_live_view_path(camera_id, video_format) ==
    /\ call' = IF ~Has(Registry, camera_id)
               THEN Raised("get_camera_live_view_path", <<PyInt(camera_id), video_format>>,
                           "KeyError")
               ELSE Returned("get_camera_live_view_path", <<PyInt(camera_id), video_format>>,
                             IF video_format # PyNone
                             THEN <<Registry.val[camera_id].live, video_format.s>>
                             ELSE <<Registry.val[camera_id].live>>)
    /\ Frame

\* lines 130-132
is_motion_detection_enabled(camera_id) ==
    /\ call' = IF Has(Registry, camera_id)
               THEN Returned("is_motion_detection_enabled", <<PyInt(camera_id)>>,
                             Registry.val[camera_id].motion)
               ELSE Raised("is_motion_detection_enabled", <<PyInt(camera_id)>>, "KeyError")
    /\ Frame

(* ---------------------- remote-state operations ----------------------- *)

\* One `await self._dsm.get(...)`: the request goes out and the call ends with
\* the response or with the transport's failure.
Sent(op, args, request, ok) ==
    /\ call' = [op |-> op, args |-> args, raised |-> IF ok THEN "none" ELSE "TransportError",
                value |-> <<>>, reqs |-> <<request>>]
    /\ Frame

\* lines 51-53
get_info(ok) ==
    Sent("get_info", <<>>, Request("SYNO.SurveillanceStation.Info", "GetInfo", <<>>, 0), ok)

\* lines 75-88
get_camera_image(camera_id, profile, ok) ==
    Sent("get_camera_image", <<camera_id, profile>>,
         Request("SYNO.SurveillanceStation.Camera", "GetSnapshot",
                 <<Param("id", camera_id), Param("cameraId", camera_id),
                   Param("profileType", profile)>>, 0), ok)

\* lines 90-95
enable_camera(camera_id, ok) ==
    Sent("enable_camera", <<camera_id>>,
         Request("SYNO.SurveillanceStation.Camera", "Enable",
                 <<Param("idList", camera_id)>>, 0), ok)

\* lines 97-102
disable_camera(camera_id, ok) ==
    Sent("disable_camera", <<camera_id>>,
         Request("SYNO.SurveillanceStation.Camera", "Disable",
                 <<Param("idList", camera_id)>>, 0), ok)

\* lines 105-114: blSave is int(save)
capture_camera_image(camera_id, save, ok) ==
    Sent("capture_camera_image", <<camera_id, PyStr(StrBool(save))>>,
         Request("SYNO.SurveillanceStation.SnapShot", "TakeSnapshot",
                 <<Param("camId", camera_id),
                   Param("blSave", PyInt(IF save THEN 1 ELSE 0))>>, 0), ok)

\* lines 116-127
download_snapshot(snapshot_id, snapshot_size, ok) ==
    Sent("download_snapshot", <<snapshot_id, snapshot_size>>,
         Request("SYNO.SurveillanceStation.SnapShot", "LoadSnapshot",
                 <<Param("id", snapshot_id), Param("imgSize", snapshot_size)>>, 0), ok)

\* Mutant of lines 134-140: the cached flag is set along with the request.
enable_motion_detection_cached(camera_id, ok) ==
    /\ call' = [op |-> "enable_motion_detection", args |-> <<camera_id>>,
                raised |-> IF ok THEN "none" ELSE "TransportError", value |-> <<>>,
                reqs |-> <<Request("SYNO.SurveillanceStation.Camera.Event", "MDParamSave",
                                   <<Param("camId", camera_id),
                                     Param("source", PyConst("MOTION_DETECTION_BY_SURVEILLANCE"))>>,
                                   0)>>]
    /\ heap' = IF Has(Registry, camera_id.n)
               THEN [heap EXCEPT ![data] =
                        DictSet(Registry, camera_id.n,
                                [Registry.val[camera_id.n] EXCEPT !.motion = "True"])]
               ELSE heap
    /\ UNCHANGED <<data, pc, iter, reqs, got, result, before, merged, mixed, backend, snap>>

\* lines 134-140
enable_motion_detection(camera_id, ok) ==
    Sent("enable_motion_detection", <<camera_id>>,
         Request("SYNO.SurveillanceStation.Camera.Event", "MDParamSave",
                 <<Param("camId", camera_id),
                   Param("source", PyConst("MOTION_DETECTION_BY_SURVEILLANCE"))>>, 0), ok)

\* lines 142-148
disable_motion_detection(camera_id, ok) ==
    Sent("disable_motion_detection", <<camera_id>>,
         Request("SYNO.SurveillanceStation.Camera.Event", "MDParamSave",
                 <<Param("camId", camera_id),
                   Param("source", PyConst("MOTION_DETECTION_DISABLED"))>>, 0), ok)

\* lines 151-154
get_home_mode_status(ok) ==
    Sent("get_home_mode_status", <<>>,
         Request("SYNO.SurveillanceStation.HomeMode", "GetInfo", <<>>, 0), ok)

\* lines 156-161: on is str(state).lower()
set_home_mode(state, ok) ==
    Sent("set_home_mode", <<PyStr(StrBool(state))>>,
         Request("SYNO.SurveillanceStation.HomeMode", "Switch",
                 <<Param("on", PyStr(Lower(StrBool(state))))>>, 0), ok)

(* ------------------- one caller, any response ------------------------- *)

Next ==
    \/ UpdateStart(1)
    \/ ListFail(1)
    \/ \E cameras \in ListResponses : ListResponse(1, cameras)
    \/ MotionFail(1)
    \/ \E motion_data \in MotionDatas : MotionResponse(1, motion_data)
    \/ LiveViewFail(1)
    \/ \E live_view_datas \in LiveViewResponses : LiveViewResponse(1, live_view_datas)

Spec == Init /\ [][Next]_vars

(* ------------------- one caller, a backend held fixed ----------------- *)

\* What the NAS holds: the List response it gives, each camera's motion
\* source, each camera's live-view path (or none).
Backends ==
    [list : ListResponses,
     motion : [CamIds -> MotionDatas],
     live : [CamIds -> LivePaths \cup {"absent"}]]

\* The answer to MotionEnum {"camId": camera_id}.
MotionEnumData(b, request) == b.motion[request.params[1].value.n]

\* The answer to GetLiveViewPath {"idList": "1,2"}: one record per requested
\* camera that has a path, in the order asked.
RECURSIVE LiveViewRecords(_, _)
LiveViewRecords(b, ids) ==
    IF ids = <<>> THEN <<>>
    ELSE (IF Head(ids) \in CamIds /\ b.live[Head(ids)] # "absent"
          THEN <<[id |-> Head(ids), path |-> b.live[Head(ids)]]>> ELSE <<>>)
         \o LiveViewRecords(b, Tail(ids))

LiveViewPathData(b, request) ==
    LET parts == SelectSeq(Split(request.params[1].value.s, ","), LAMBDA part : part # <<>>)
    IN LiveViewRecords(b, [i \in 1..Len(parts) |-> ParseInt(parts[i])])

LastRequest(p) == reqs[p][Len(reqs[p])]

\* A caller p served by the fixed backend.
Served(p) ==
    \/ ListResponse(p, backend.list)
    \/ pc[p] = "motion" /\ MotionResponse(p, MotionEnumData(backend, LastRequest(p)))
    \/ pc[p] = "live" /\ LiveViewResponse(p, LiveViewPathData(backend, LastRequest(p)))

Failed(p) == ListFail(p) \/ MotionFail(p) \/ LiveViewFail(p)

\* The caller copies the registry contents after a successful update().
Remember ==
    /\ pc[1] = "idle" /\ result[1] \in {"ok", "early"}
    /\ ~(snap.taken /\ snap.age = 0)
    /\ snap' = [taken |-> TRUE, age |-> 0, keys |-> Registry.keys, val |-> Registry.val]
    /\ UNCHANGED <<heap, data, pc, iter, reqs, got, result, before, merged, mixed, call, backend>>

InitWith(B) ==
    \E b \in B :
        /\ backend = b
        /\ heap = [i \in DictIds |-> EmptyDict]
        /\ data = 1
        /\ pc = [p \in Procs |-> "idle"]
        /\ iter = [p \in Procs |-> NoIter]
        /\ reqs = [p \in Procs |-> <<>>]
        /\ got = [p \in Procs |-> NoGot]
        /\ result = [p \in Procs |-> "none"]
        /\ before = [p \in Procs |-> {}]
        /\ merged = [p \in Procs |-> {}]
        /\ mixed = [p \in Procs |-> FALSE]
        /\ call = NoCall
        /\ snap = NoSnap

NextReplay ==
    \/ UpdateStart(1)
    \/ Served(1)
    \/ Failed(1)
    \/ Remember

SpecReplay == InitWith(Backends) /\ [][NextReplay]_vars

(* --------- one caller and the other operations, backend fixed --------- *)

\* Camera IDs a caller may ask for: the backend's and one it never names.
ArgIds == 1..(MaxCam + 1)

VideoFormats == {PyNone, PyStr(<<"r", "t", "s", "p">>)}

\* The camera_id a remote-state operation is given: one ID, or several joined.
CameraArgs == {PyInt(1), PyStr(<<"1", ",", "2">>)}

Accessors ==
    \/ get_all_cameras
    \/ \E camera_id \in ArgIds : get_camera(camera_id)
    \/ \E camera_id \in ArgIds, video_format \in VideoFormats :
            get_camera_live_view_path(camera_id, video_format)
    \/ \E camera_id \in ArgIds : is_motion_detection_enabled(camera_id)

RemoteOperations ==
    \E ok \in BOOLEAN :
        \/ get_info(ok)
        \/ get_camera_image(PyInt(1), PyConst("SNAPSHOT_PROFILE_BALANCED"), ok)
        \/ \E camera_id \in CameraArgs : enable_camera(camera_id, ok)
        \/ \E camera_id \in CameraArgs : disable_camera(camera_id, ok)
        \/ \E save \in BOOLEAN : capture_camera_image(PyInt(1), save, ok)
        \/ download_snapshot(PyInt(1), PyConst("SNAPSHOT_SIZE_FULL"), ok)
        \/ \E camera_id \in CamIds : enable_motion_detection(PyInt(camera_id), ok)
        \/ \E camera_id \in CamIds : disable_motion_detection(PyInt(camera_id), ok)
        \/ get_home_mode_status(ok)
        \/ \E state \in BOOLEAN : set_home_mode(state, ok)

\* Backends with one kind of record per camera, one motion source and one
\* path for all.
PlainBackends ==
    {b \in Backends :
        /\ \A i \in 1..Len(b.list) : "model" \in DOMAIN b.list[i]
        /\ \A i, j \in CamIds : b.motion[i] = b.motion[j] /\ b.live[i] = b.live[j]}

NextOps ==
    \/ UpdateStart(1)
    \/ Served(1)
    \/ Failed(1)
    \/ Accessors
    \/ RemoteOperations

SpecOps == InitWith(PlainBackends) /\ [][NextOps]_vars

(* ------------------- two callers, backend fixed ----------------------- *)

NextInterleaved ==
    \/ \E p \in Procs : UpdateStart(p)
    \/ \E p \in Procs : Served(p)
    \/ get_all_cameras

SpecInterleaved == InitWith(PlainBackends) /\ [][NextInterleaved]_vars

(* ======================== properties ================================== *)

Ids(records) == {records[i].id : i \in 1..Len(records)}

\* The distinct IDs of a camera array, in the order of their first occurrence.
RECURSIVE FirstIds(_)
FirstIds(cameras) ==
    IF cameras = <<>> THEN <<>>
    ELSE LET front == FirstIds(SubSeq(cameras, 1, Len(cameras) - 1))
             last == cameras[Len(cameras)].id
         IN IF \E i \in 1..Len(front) : front[i] = last THEN front ELSE Append(front, last)

\* The IDs that occur more than once in a camera array.
RepeatedIds(cameras) ==
    {cameras[i].id : i \in {k \in 1..Len(cameras) : \E j \in 1..(k - 1) : cameras[j].id = cameras[k].id}}

\* The fields of the records of one ID laid over each other: each field has the
\* value of the last record that carries it.
Overlay(cameras, id) ==
    LET at == {i \in 1..Len(cameras) : cameras[i].id = id}
        fields == UNION {DOMAIN cameras[i] : i \in at}
        lastWith(f) == CHOOSE i \in at : f \in DOMAIN cameras[i]
                            /\ \A j \in at : f \in DOMAIN cameras[j] => j <= i
    IN [f \in fields |-> cameras[lastWith(f)][f]]

\* "1,2,3" for <<1, 2, 3>>
RECURSIVE IdListText(_)
IdListText(ids) ==
    IF ids = <<>> THEN <<>>
    ELSE IF Len(ids) = 1 THEN Str(ids[1])
    ELSE IdListText(SubSeq(ids, 1, Len(ids) - 1)) \o <<",">> \o Str(ids[Len(ids)])

\* The path of the last record for `id` in a GetLiveViewPath response.
LastPath(live_view_datas, id) ==
    LET at == {i \in 1..Len(live_view_datas) : live_view_datas[i].id = id}
    IN live_view_datas[CHOOSE i \in at : \A j \in at : j <= i].path

Finished(p) == pc[p] = "idle" /\ result[p] # "none"
Succeeded(p) == pc[p] = "idle" /\ result[p] \in {"ok", "early"}
NeverUpdated == \A p \in Procs : reqs[p] = <<>>

(* ------------------------------- C1 ----------------------------------- *)

C2_EmptyListReturnsEarly ==
    (got[1].n >= 1 /\ got[1].list = <<>>) =>
        /\ pc[1] = "idle" /\ result[1] = "early"
        /\ Registry.keys = <<>>
        /\ reqs[1] = <<ListReq>>

\* An empty List response after a cycle that had left cameras in the registry.
C2_Witness ==
    /\ got[1].n >= 1 /\ got[1].list = <<>> /\ result[1] = "early"
    /\ before[1] # {}

(* ------------------------------- C4 ----------------------------------- *)

\* C4: after a successful update() the registry's keys are exactly the IDs of
\* that cycle's List response; a camera of the prior cycle that the new
\* response does not name is gone.
C4_KeysAreTheListedIds ==
    Succeeded(1) => /\ KeySet(Registry) = Ids(got[1].list)
                    /\ \A id \in before[1] \ Ids(got[1].list) : ~Has(Registry, id)

\* A successful cycle that dropped a camera of the prior cycle and kept another.
C4_Witness ==
    /\ Succeeded(1) /\ result[1] = "ok"
    /\ before[1] \ Ids(got[1].list) # {}
    /\ before[1] \cap Ids(got[1].list) # {}

(* ------------------------------- C7 ----------------------------------- *)

\* The requests of a cycle that has received n >= 1 responses, the first k of
\* them MotionEnum responses: List, then MotionEnum for the first IDs.
ExpectedRequests(cameras, count) ==
    <<ListReq>> \o [i \in 1..count |-> MotionEnumReq(FirstIds(cameras)[i])]

ExpectedLiveViewRequest(cameras) ==
    Request("SYNO.SurveillanceStation.Camera", "GetLiveViewPath",
            <<Param("idList", PyStr(IdListText(FirstIds(cameras))))>>, 0)

\* C7: a cycle issues its requests one at a time (a request only after the
\* response to the one before), and a successful cycle over n >= 1 distinct IDs
\* has issued List, then one MotionEnum per distinct ID in insertion order,
\* then one GetLiveViewPath whose idList is the comma-joined IDs in that
\* order: n + 2 requests.
C7_RequestOrder ==
    /\ pc[1] # "idle" => Len(reqs[1]) = got[1].n + 1
    /\ pc[1] = "motion" =>
            reqs[1] = ExpectedRequests(got[1].list, got[1].n)
    /\ pc[1] = "live" =>
            /\ got[1].n = Len(FirstIds(got[1].list)) + 1
            /\ reqs[1] = ExpectedRequests(got[1].list, got[1].n - 1)
                            \o <<ExpectedLiveViewRequest(got[1].list)>>
    /\ (pc[1] = "idle" /\ result[1] = "ok") =>
            /\ Len(reqs[1]) = Len(FirstIds(got[1].list)) + 2
            /\ reqs[1] = ExpectedRequests(got[1].list, Len(FirstIds(got[1].list)))
                            \o <<ExpectedLiveViewRequest(got[1].list)>>

\* A successful cycle whose List response named camera 2 before camera 1.
C7_Witness ==
    /\ pc[1] = "idle" /\ result[1] = "ok"
    /\ Len(reqs[1]) = 4
    /\ reqs[1][2].params[1].value = PyInt(2)
    /\ reqs[1][3].params[1].value = PyInt(1)
    /\ reqs[1][4].params[1].value = PyStr(<<"2", ",", "1">>)

(* ------------------------------- C8 ----------------------------------- *)

\* C8: when a transport call of update() fails, update() ends with that
\* failure; the failed request is the last of the cycle (no retry); the
\* registry is as it was at the failure: empty if List failed, else holding
\* every listed camera, with motion data on exactly the cameras whose
\* MotionEnum response had arrived and with no live-view data.
C8_FailureLeavesPartialState ==
    (pc[1] = "idle" /\ result[1] = "TransportError") =>
        /\ Len(reqs[1]) = got[1].n + 1
        /\ IF got[1].n = 0
           THEN Registry.keys = <<>>
           ELSE /\ Registry.keys = FirstIds(got[1].list)
                /\ \A k \in 1..Len(Registry.keys) :
                    LET camera == Registry.val[Registry.keys[k]] IN
                    /\ camera.data = Overlay(got[1].list, Registry.keys[k])
                    /\ camera.live = "None"
                    /\ (camera.motion # "None") <=> (k <= got[1].n - 1)

\* The second MotionEnum call failed: camera one has motion data, camera two
\* has none, and the cameras of the prior cycle were different.
C8_Witness ==
    /\ pc[1] = "idle" /\ result[1] = "TransportError"
    /\ got[1].n = 2 /\ Len(Registry.keys) = 2
    /\ Registry.val[Registry.keys[1]].motion # "None"
    /\ Registry.val[Registry.keys[2]].motion = "None"
    /\ before[1] # KeySet(Registry)

(* ------------------------------- C10 ---------------------------------- *)

CountIn(seq, x) == Cardinality({i \in 1..Len(seq) : seq[i] = x})

C10_CarriedOverNotMerged ==
    /\ pc[1] = "idle" /\ result[1] = "ok"
    /\ merged[1] = {} /\ before[1] \cap Ids(got[1].list) # {}

(* ------------------------------- C3 ----------------------------------- *)

\* C3: with the backend's data unchanged, when update() succeeded, the caller
\* copied the registry contents, and the next update() succeeded too, the
\* registry contents (keys, their order, every camera's fields, motion flag
\* and live-view data) equal the copy.
C3_SecondUpdateChangesNothing ==
    (snap.taken /\ snap.age = 1 /\ Succeeded(1)) =>
        /\ Registry.keys = snap.keys
        /\ Registry.val = snap.val

\* Two successful cycles in a row over two cameras, with motion data on both
\* and live-view data on one at least.
C3_Witness ==
    /\ snap.taken /\ snap.age = 1 /\ Succeeded(1) /\ result[1] = "ok"
    /\ Len(snap.keys) = 2
    /\ \A id \in KeySet(Registry) : Registry.val[id].motion # "None"
    /\ \E id \in KeySet(Registry) : Registry.val[id].live # "None"

(* ------------------------------- C5 ----------------------------------- *)

Lookups == {"get_camera", "get_camera_live_view_path", "is_motion_detection_enabled"}

\* C5: get_camera, get_camera_live_view_path and is_motion_detection_enabled,
\* called with an ID that is not a key of the registry, raise KeyError and
\* return nothing; the call issues no request and leaves the registry as it
\* was. This holds in every state, before the first update() and at the
\* suspension points of a running update() included.
C5_AbsentKeyRaises ==
    [][(call'.op \in Lookups /\ ~Has(Registry, call'.args[1].n)) =>
            /\ call'.raised = "KeyError"
            /\ call'.value = <<>>
            /\ call'.reqs = <<>>
            /\ reqs' = reqs
            /\ heap' = heap /\ data' = data]_vars

\* A lookup of an absent ID while the registry holds a camera and an update()
\* is suspended.
C5_Witness ==
    /\ call.op = "is_motion_detection_enabled" /\ call.raised = "KeyError"
    /\ ~Has(Registry, call.args[1].n)
    /\ Registry.keys # <<>>
    /\ pc[1] = "motion"

\* A lookup before the first update().
C5_BeforeFirstUpdate ==
    /\ NeverUpdated /\ call.op = "get_camera_live_view_path" /\ call.raised = "KeyError"

(* ------------------------------- C6 ----------------------------------- *)

RemoteOps ==
    {"get_info", "get_camera_image", "enable_camera", "disable_camera",
     "capture_camera_image", "download_snapshot", "enable_motion_detection",
     "disable_motion_detection", "get_home_mode_status", "set_home_mode"}

\* C6: every remote-state operation issues exactly one request and leaves the
\* registry (so also the cached motion flag) unchanged, whether the transport
\* answers or fails; enable_camera and disable_camera send their argument
\* as idList unchanged.
C6_OneRequestNoLocalChange ==
    [][call'.op \in RemoteOps =>
            /\ Len(call'.reqs) = 1
            /\ reqs' = reqs
            /\ heap' = heap /\ data' = data
            /\ call'.op \in {"enable_camera", "disable_camera"} =>
                    /\ call'.reqs[1].method = (IF call'.op = "enable_camera"
                                               THEN "Enable" ELSE "Disable")
                    /\ call'.reqs[1].params = <<Param("idList", call'.args[1])>>]_vars

\* enable_motion_detection(1) was called while the cached flag of camera 1
\* says disabled.
C6_Witness ==
    /\ call.op = "enable_motion_detection" /\ call.args[1] = PyInt(1)
    /\ call.raised = "none"
    /\ Has(Registry, 1) /\ Registry.val[1].motion = "False"

\* enable_camera("1,2") sent idList "1,2".
C6_ForwardedVerbatim ==
    /\ call.op = "enable_camera" /\ call.args[1] = PyStr(<<"1", ",", "2">>)
    /\ call.reqs[1].params[1].value = PyStr(<<"1", ",", "2">>)

(* ------------------------------- C9 ----------------------------------- *)

\* C9: with two callers, no transport failure and a backend that answers every
\* request the same way, an update() that no other update() overlapped ends
\* as a sequential one does; an update() that returned early although its
\* List response named cameras, or that raised KeyError while applying its
\* live-view response, was overlapped by another update(): the registry it
\* read after an await was the one the other call had reset. Both endings
\* are reachable.
C9_OnlyOverlapBreaksTheCycle ==
    \A p \in Procs :
        Finished(p) =>
            /\ result[p] \in {"ok", "early", "KeyError"}
            /\ ~mixed[p] =>
                    /\ result[p] = (IF got[p].list = <<>> THEN "early" ELSE "ok")
            /\ (result[p] = "early" /\ got[p].list # <<>>) =>
                    /\ mixed[p]
                    /\ \A i \in 1..Len(reqs[p]) : reqs[p][i].method # "GetLiveViewPath"
            /\ result[p] = "KeyError" =>
                    /\ mixed[p]
                    /\ reqs[p][Len(reqs[p])].method = "GetLiveViewPath"

\* Caller 1 raised KeyError: caller 2 reset the registry while caller 1
\* awaited its live-view response.
C9_Witness ==
    /\ Finished(1) /\ result[1] = "KeyError" /\ mixed[1]
    /\ got[1].live # <<>>
    /\ pc[2] = "list"

\* Caller 1 returned early although its List response named cameras.
C9_EarlyReturnReached ==
    /\ Finished(1) /\ result[1] = "early" /\ got[1].list # <<>>

\* get_all_cameras, called while an update() is suspended, saw a camera with
\* neither motion nor live-view data.
C9_AccessorSeesPartialState ==
    /\ call.op = "get_all_cameras" /\ pc[1] = "motion"
    /\ call.value[1] # <<>>
    /\ call.value[1][1].motion = "None" /\ call.value[1][1].live = "None"

\* get_all_cameras, called while an update() is suspended after another had
\* filled the registry, saw no camera.
C9_AccessorSeesEmptyRegistry ==
    /\ call.op = "get_all_cameras" /\ pc[1] = "list" /\ before[1] # {}
    /\ call.value[1] = <<>>

====
